---- MODULE Spec2Model ----
(***************************************************************************)
(* A model of the publisher of hspaay/iotconnect.golang:                   *)
(*   - the publisher runtime of publisher/Publisher.go: Start, Stop and    *)
(*     the heartbeat loop, with the goroutines that call them;             *)
(*   - the identity handling of the publisher package (handleIdentity-     *)
(*     Update and the identity file).                                      *)
(* Goroutines are modelled one statement (or one blocking point) per step. *)
(* The unbuffered exitChannel is a rendezvous: a send and a receive happen *)
(* together, in one step, between one blocked sender and one blocked       *)
(* receiver.                                                               *)
(***************************************************************************)
EXTENDS Integers, Sequences, FiniteSets, TLC

\* ------------------------------------------------------------------ bounds
\* Calls of Start or Stop made in all.
MaxCalls == 3
\* Ticks of the heartbeat the publisher runs while its running flag is set.
MaxTicks == 4
\* The largest interval an application passes to SetPollInterval and the like.
MaxInterval == 2
\* The same two, where several goroutines call Start and Stop.
MaxConcCalls == 3
MaxConcTicks == 2
\*\* The same two, where the fairness of the scheduler is assumed.
MaxFairCalls == 3
MaxFairTicks == 3
\* The segments of the longest destination address an application passes.
MaxSegments == 6
\* The years the clock runs.
MaxTime == 2
\* Calls of Start or Stop and ticks, while messages are verified.
MaxVerCalls == 3
MaxVerTicks == 2
\* The same two, for several goroutines under the fairness of the scheduler.
MaxFairConcCalls == 3
MaxFairConcTicks == 1
\* Calls of Start or Stop and ticks of a publisher followed from its making.
MaxBootCalls == 2
MaxBootTicks == 1
\* The seconds before and after the reference instant at which identities are
\* checked for expiry.
MaxSeconds == 2

\* --------------------------------------------------------------- constants
DefaultDiscoveryInterval == 24 * 3600
DefaultPollInterval == 24 * 3600

\* The goroutines that call the public functions. Sequential use is caller 1
\* alone.
Callers == {1, 2}
SeqCallers == {1}
\* Every Start that passes its running check spawns one heartbeat goroutine.
Loops == 1 .. (MaxCalls + MaxConcCalls + MaxFairCalls)

Free == <<"free", 0>>
CallerThread(c) == <<"caller", c>>
LoopThread(l) == <<"loop", l>>

VARIABLES
    \* Publisher fields
    isRunning,          \* publisher.isRunning
    mutex,              \* publisher.updateMutex: Free or the thread holding it
    discoverCountdown,  \* publisher.discoverCountdown
    discoveryInterval,  \* publisher.discoveryInterval
    discoveryHandler,   \* publisher.discoveryHandler # nil
    pollCountdown,      \* publisher.pollCountdown
    pollInterval,       \* publisher.pollInterval
    pollHandler,        \* publisher.pollHandler # nil
    messenger,          \* publisher.messenger # nil
    subs,               \* the subscriptions registered with the messenger
    \* goroutines
    pc,                 \* each caller's position in Start or Stop
    lpc,                \* each heartbeat goroutine's position in heartbeatLoop
    calls,              \* each caller's completed calls, in order
    staleC,             \* a caller's unlocked read of isRunning may see the old value
    staleL,             \* the same for what a heartbeat goroutine has seen
    discLive,           \* discovery handler goroutines that have not returned
    discStuck,          \* one of them never returns
    ltick,              \* the tick each heartbeat goroutine is in
    \* observers
    got,                \* the signal a caller's last receive on exitChannel took
    stopTargets,        \* the loops live when a caller's Stop cleared the flag
    ticks,              \* ticks begun (all heartbeat goroutines)
    pollTicks,          \* the ticks in which the poll handler was invoked
    pollDecided,        \* the last tick whose poll step is over
    pending,            \* the tick whose polled values wait for publication, or 0
    lastPub,            \* <<tick polled, tick published>> of the last polled values published
    \* identity
    fullIdentity,       \* publisher.fullIdentity
    identityPrivateKey, \* publisher.identityPrivateKey
    domainPublishers,   \* publisher.domainPublishers: the key on record of each publisher
    lastOutcome,        \* how the last identity update handled ended
    \* outbound commands
    command,            \* the last PublishSetInput or PublishNodeConfigure: its name and destination
    handed,             \* what that call handed to messageSigner.PublishObject
    result,             \* what that call returned
    delivered,          \* the messenger has delivered what was handed to it
    routed,             \* the handlers of this publisher the delivery invoked
    \* identity file
    file,               \* <folder>/<publisherID>-identity.json
    spc,                \* the position of the process in SetupPublisherIdentity
    setupDomain,        \* the domain SetupPublisherIdentity was called with
    created,            \* the identity CreateIdentity made in this call
    setupResult,        \* what SetupPublisherIdentity returned
    fileAtCall,         \* the file as it was when SetupPublisherIdentity was called
    saveErr,            \* SaveIdentity returned an error in this call
    now,                \* time.Now(): the seconds since the start of BaseYear
    zone,               \* the zone offset of the local time, in hours
    \* the signatures of received messages
    zonePublishers,     \* publisher.zonePublishers: the key of each publisher on record
    vpc,                \* the position of the messenger's goroutine in VerifyMessageSignature
    verifying,          \* the sender and the signature of the message it verifies
    node,               \* its local variable node
    valid,              \* what VerifyMessageSignature returned last
    \* construction
    constructed,        \* how NewPublisher ended
    signPrivateKey,     \* publisher.signPrivateKey
    \* expiry
    checked             \* the last call of IsIdentityExpired: its identity and its result

pubVars == <<isRunning, mutex, discoverCountdown, discoveryInterval, discoveryHandler,
             pollCountdown, pollInterval, pollHandler, messenger, subs>>
goVars == <<pc, lpc, calls, staleC, staleL, discLive, discStuck, ltick>>
obsVars == <<got, stopTargets, ticks, pollTicks, pollDecided, pending, lastPub>>
idVars == <<fullIdentity, identityPrivateKey, domainPublishers, lastOutcome>>
addrVars == <<command, handed, result, delivered, routed>>
fileVars == <<file, spc, setupDomain, created, setupResult, fileAtCall, saveErr, now, zone>>
verVars == <<zonePublishers, vpc, verifying, node, valid>>
newVars == <<constructed, signPrivateKey>>
expVars == <<checked>>
vars == <<pubVars, goVars, obsVars, idVars, addrVars, fileVars, verVars, newVars, expVars>>

\* ------------------------------------------------------------ NewPublisher
InitRuntime ==
    /\ isRunning = FALSE
    /\ mutex = Free
    /\ discoverCountdown = 0
    /\ discoveryInterval = DefaultDiscoveryInterval
    /\ discoveryHandler = FALSE
    /\ pollCountdown = 1
    /\ pollInterval = DefaultPollInterval
    /\ pollHandler = FALSE
    /\ messenger = TRUE
    /\ subs = {}
    /\ pc = [c \in Callers |-> "idle"]
    /\ lpc = [l \in Loops |-> "none"]
    /\ calls = [c \in Callers |-> <<>>]
    /\ staleC = [c \in Callers |-> FALSE]
    /\ staleL = [l \in Loops |-> FALSE]
    /\ discLive = 0
    /\ discStuck = FALSE
    /\ ltick = [l \in Loops |-> 0]
    /\ got = [c \in Callers |-> "none"]
    /\ stopTargets = [c \in Callers |-> {}]
    /\ ticks = 0
    /\ pollTicks = {}
    /\ pollDecided = 0
    /\ pending = 0
    /\ lastPub = <<0, 0>>

\* ------------------------------------------------------------- configuration
\* The application configures the publisher before it starts it.
NotStarted == \A c \in Callers : pc[c] = "idle" /\ calls[c] = <<>>

SetDiscoveryInterval(interval, handler) ==
    /\ NotStarted
    /\ discoveryInterval' = IF interval > 0 THEN interval ELSE discoveryInterval
    /\ discoveryHandler' = handler
    /\ UNCHANGED <<isRunning, mutex, discoverCountdown, pollCountdown, pollInterval,
                   pollHandler, messenger, subs, goVars, obsVars, idVars, addrVars, fileVars, verVars, newVars, expVars>>

SetPollingInterval(interval, handler) ==
    /\ NotStarted
    /\ pollInterval' = IF interval > 0 THEN interval ELSE pollInterval
    /\ pollHandler' = handler
    /\ UNCHANGED <<isRunning, mutex, discoverCountdown, discoveryInterval, discoveryHandler,
                   pollCountdown, messenger, subs, goVars, obsVars, idVars, addrVars, fileVars, verVars, newVars, expVars>>

SetPollInterval(seconds, handler) ==
    /\ NotStarted
    /\ pollInterval' = seconds
    /\ pollHandler' = handler
    /\ UNCHANGED <<isRunning, mutex, discoverCountdown, discoveryInterval, discoveryHandler,
                   pollCountdown, messenger, subs, goVars, obsVars, idVars, addrVars, fileVars, verVars, newVars, expVars>>

\* ------------------------------------------------------------------- mutex
Lock(t) == mutex = Free /\ mutex' = t
Unlock(t) == mutex = t /\ mutex' = Free

\* A write of isRunning (made under the mutex) by caller c: every other
\* goroutine may still see the old value until it synchronises.
WriteRunning(c, v) ==
    /\ isRunning' = v
    /\ staleC' = [d \in Callers |-> IF d = c THEN FALSE
                                    ELSE staleC[d] \/ (v # isRunning)]
    /\ staleL' = [l \in Loops |-> staleL[l] \/ (v # isRunning)]

\* The values the unlocked read of isRunning in Start can return: a data race
\* with the writes other goroutines make under the mutex.
RacyReadRunning(c) == IF staleC[c] THEN BOOLEAN ELSE {isRunning}

\* The calls begun so far, by all callers.
CallsBegun ==
    LET n[S \in SUBSET Callers] ==
            IF S = {} THEN 0
            ELSE LET c == CHOOSE d \in S : TRUE
                 IN  Len(calls[c]) + (IF pc[c] = "idle" THEN 0 ELSE 1) + n[S \ {c}]
    IN  n[Callers]

Done(c, call) == calls' = [calls EXCEPT ![c] = Append(@, call)]

\* ------------------------------------------------------------------- Start
SubscriptionsOfStart == {"configure", "set", "discovery"}

\* Start, to its unlocked test of the running flag.
StartEnter(c, maxCalls) ==
    /\ pc[c] = "idle"
    /\ CallsBegun < maxCalls
    /\ IF ~messenger
       THEN Done(c, "StartNoMessenger") /\ UNCHANGED pc
       ELSE \E seen \in RacyReadRunning(c) :
              IF seen
              THEN Done(c, "StartNoop") /\ UNCHANGED pc
              ELSE pc' = [pc EXCEPT ![c] = "start_lock"] /\ UNCHANGED calls
    /\ UNCHANGED <<pubVars, lpc, staleC, staleL, discLive, discStuck, ltick, obsVars, idVars, addrVars, fileVars, verVars, newVars, expVars>>

StartLock(c) ==
    /\ pc[c] = "start_lock"
    /\ Lock(CallerThread(c))
    /\ pc' = [pc EXCEPT ![c] = "start_set"]
    /\ staleC' = [staleC EXCEPT ![c] = FALSE]
    /\ UNCHANGED <<isRunning, discoverCountdown, discoveryInterval, discoveryHandler,
                   pollCountdown, pollInterval, pollHandler, messenger, subs,
                   lpc, calls, staleL, discLive, discStuck, ltick, obsVars, idVars, addrVars, fileVars, verVars, newVars, expVars>>

StartSet(c) ==
    /\ pc[c] = "start_set"
    /\ WriteRunning(c, TRUE)
    /\ Unlock(CallerThread(c))
    /\ pc' = [pc EXCEPT ![c] = "start_spawn"]
    /\ UNCHANGED <<discoverCountdown, discoveryInterval, discoveryHandler,
                   pollCountdown, pollInterval, pollHandler, messenger, subs,
                   lpc, calls, discLive, discStuck, ltick, obsVars, idVars, addrVars, fileVars, verVars, newVars, expVars>>

\* go publisher.heartbeatLoop(): the new goroutine is the first unused one.
UnusedLoops == {l \in Loops : lpc[l] = "none"}
NewLoop == CHOOSE l \in UnusedLoops : \A k \in UnusedLoops : l <= k

StartSpawn(c) ==
    /\ pc[c] = "start_spawn"
    /\ UnusedLoops # {}
    /\ lpc' = [lpc EXCEPT ![NewLoop] = "sendBegun"]
    /\ staleL' = [staleL EXCEPT ![NewLoop] = staleC[c]]
    /\ pc' = [pc EXCEPT ![c] = "start_wait"]
    /\ UNCHANGED <<pubVars, calls, staleC, discLive, discStuck, ltick, obsVars, idVars, addrVars, fileVars, verVars, newVars, expVars>>

\* Connect, the three subscriptions and the first PublishUpdates.
StartConnect(c) ==
    /\ pc[c] = "start_connect"
    /\ subs' = subs \cup SubscriptionsOfStart
    /\ pc' = [pc EXCEPT ![c] = "idle"]
    /\ Done(c, "Start")
    /\ UNCHANGED <<isRunning, mutex, discoverCountdown, discoveryInterval, discoveryHandler,
                   pollCountdown, pollInterval, pollHandler, messenger,
                   lpc, staleC, staleL, discLive, discStuck, ltick, obsVars, idVars, addrVars, fileVars, verVars, newVars, expVars>>

\* -------------------------------------------------------------------- Stop
LiveLoops == {l \in Loops : lpc[l] \notin {"none", "done"}}
\* The loops that may still publish or call a handler.
TickingLoops == {l \in Loops : lpc[l] \notin {"none", "sendEnded", "done"}}

StopLock(c, maxCalls) ==
    /\ pc[c] = "idle"
    /\ CallsBegun < maxCalls
    /\ Lock(CallerThread(c))
    /\ pc' = [pc EXCEPT ![c] = "stop_locked"]
    /\ staleC' = [staleC EXCEPT ![c] = FALSE]
    /\ UNCHANGED <<isRunning, discoverCountdown, discoveryInterval, discoveryHandler,
                   pollCountdown, pollInterval, pollHandler, messenger, subs,
                   lpc, calls, staleL, discLive, discStuck, ltick, obsVars, idVars, addrVars, fileVars, verVars, newVars, expVars>>

\* Stop without its test of the running flag: it always waits for the loop.
StopCheckAlwaysWaits(c) ==
    /\ pc[c] = "stop_locked"
    /\ Unlock(CallerThread(c))
    /\ WriteRunning(c, FALSE)
    /\ pc' = [pc EXCEPT ![c] = "stop_wait"]
    /\ stopTargets' = [stopTargets EXCEPT ![c] = LiveLoops]
    /\ UNCHANGED <<discoverCountdown, discoveryInterval, discoveryHandler,
                   pollCountdown, pollInterval, pollHandler, messenger, subs,
                   lpc, calls, discLive, discStuck, ltick,
                   got, ticks, pollTicks, pollDecided, pending, lastPub, idVars, addrVars, fileVars, verVars, newVars, expVars>>

\* Stop returning once it has cleared the flag, without waiting for the loop.
StopCheckNoWait(c) ==
    /\ pc[c] = "stop_locked"
    /\ Unlock(CallerThread(c))
    /\ IF isRunning
       THEN /\ WriteRunning(c, FALSE)
            /\ pc' = [pc EXCEPT ![c] = "idle"]
            /\ Done(c, "Stop")
            /\ stopTargets' = [stopTargets EXCEPT ![c] = LiveLoops]
       ELSE /\ pc' = [pc EXCEPT ![c] = "idle"]
            /\ Done(c, "StopNoop")
            /\ UNCHANGED <<isRunning, staleC, staleL, stopTargets>>
    /\ UNCHANGED <<discoverCountdown, discoveryInterval, discoveryHandler,
                   pollCountdown, pollInterval, pollHandler, messenger, subs,
                   lpc, discLive, discStuck, ltick,
                   got, ticks, pollTicks, pollDecided, pending, lastPub, idVars, addrVars, fileVars, verVars, newVars, expVars>>

\* Stop releasing the mutex only once the loop has answered.
StopCheckHoldsMutex(c) ==
    /\ pc[c] = "stop_locked"
    /\ IF isRunning
       THEN /\ WriteRunning(c, FALSE)
            /\ pc' = [pc EXCEPT ![c] = "stop_wait"]
            /\ stopTargets' = [stopTargets EXCEPT ![c] = LiveLoops]
            /\ UNCHANGED <<calls, mutex>>
       ELSE /\ Unlock(CallerThread(c))
            /\ pc' = [pc EXCEPT ![c] = "idle"]
            /\ Done(c, "StopNoop")
            /\ UNCHANGED <<isRunning, staleC, staleL, stopTargets>>
    /\ UNCHANGED <<discoverCountdown, discoveryInterval, discoveryHandler,
                   pollCountdown, pollInterval, pollHandler, messenger, subs,
                   lpc, discLive, discStuck, ltick,
                   got, ticks, pollTicks, pollDecided, pending, lastPub, idVars, addrVars, fileVars, verVars, newVars, expVars>>

StopCheck(c) ==
    /\ pc[c] = "stop_locked"
    /\ Unlock(CallerThread(c))
    /\ IF isRunning
       THEN /\ WriteRunning(c, FALSE)
            /\ pc' = [pc EXCEPT ![c] = "stop_wait"]
            /\ stopTargets' = [stopTargets EXCEPT ![c] = LiveLoops]
            /\ UNCHANGED calls
       ELSE /\ pc' = [pc EXCEPT ![c] = "idle"]
            /\ Done(c, "StopNoop")
            /\ UNCHANGED <<isRunning, staleC, staleL, stopTargets>>
    /\ UNCHANGED <<discoverCountdown, discoveryInterval, discoveryHandler,
                   pollCountdown, pollInterval, pollHandler, messenger, subs,
                   lpc, discLive, discStuck, ltick,
                   got, ticks, pollTicks, pollDecided, pending, lastPub, idVars, addrVars, fileVars, verVars, newVars, expVars>>

\* The "... bye bye" after Stop's receive.
StopBye(c) ==
    /\ pc[c] = "stop_bye"
    /\ pc' = [pc EXCEPT ![c] = "idle"]
    /\ Done(c, "Stop")
    /\ UNCHANGED <<pubVars, lpc, staleC, staleL, discLive, discStuck, ltick,
                   got, stopTargets, ticks, pollTicks, pollDecided, pending,
                   lastPub, idVars, addrVars, fileVars, verVars, newVars, expVars>>

\* ------------------------------------------------------------- exitChannel
\* <-publisher.exitChannel in Start and in Stop: the caller takes a signal
\* from a heartbeat goroutine blocked in its send, whichever signal it is.
Receive(c, l, signal) ==
    /\ pc[c] \in {"start_wait", "stop_wait"}
    /\ pc' = [pc EXCEPT ![c] = IF @ = "start_wait" THEN "start_connect" ELSE "stop_bye"]
    /\ got' = [got EXCEPT ![c] = signal]
    /\ staleC' = [staleC EXCEPT ![c] = @ /\ staleL[l]]

\* publisher.exitChannel <- false
LoopSendBegun(l, c) ==
    /\ lpc[l] = "sendBegun"
    /\ Receive(c, l, "begun")
    /\ lpc' = [lpc EXCEPT ![l] = "sleep"]
    /\ UNCHANGED <<pubVars, calls, staleL, discLive, discStuck, ltick,
                   stopTargets, ticks, pollTicks, pollDecided, pending, lastPub, idVars, addrVars, fileVars, verVars, newVars, expVars>>

\* publisher.exitChannel <- true
LoopSendEnded(l, c) ==
    /\ lpc[l] = "sendEnded"
    /\ Receive(c, l, "ended")
    /\ lpc' = [lpc EXCEPT ![l] = "done"]
    /\ UNCHANGED <<pubVars, calls, staleL, discLive, discStuck, ltick,
                   stopTargets, ticks, pollTicks, pollDecided, pending, lastPub, idVars, addrVars, fileVars, verVars, newVars, expVars>>

\* ----------------------------------------------------------- heartbeatLoop
\* The countdowns are plain fields the heartbeat goroutines read and write
\* without the mutex. With one heartbeat goroutine a decrement takes one off;
\* with another one in its own countdown statements the two race, and a
\* decrement may write back the value the other one has just written.
Racing(l) == \E k \in Loops \ {l} : lpc[k] \in {"discover", "poll", "inPoll"}
Decrement(l, n) == {n - 1} \cup (IF Racing(l) THEN {n} ELSE {})

\* time.Sleep(time.Second): the next tick begins. (The model stops beginning
\* ticks at maxTicks while the publisher is left running.)
LoopSleep(l, maxTicks) ==
    /\ lpc[l] = "sleep"
    /\ ticks < maxTicks \/ ~isRunning
    /\ ticks' = ticks + 1
    /\ ltick' = [ltick EXCEPT ![l] = ticks + 1]
    /\ lpc' = [lpc EXCEPT ![l] = "publish"]
    /\ UNCHANGED <<pubVars, pc, calls, staleC, staleL, discLive, discStuck,
                   got, stopTargets, pollTicks, pollDecided, pending, lastPub, idVars, addrVars, fileVars, verVars, newVars, expVars>>

\* PublishUpdates and publishOutputValues: what is pending is published.
LoopPublish(l) ==
    /\ lpc[l] = "publish"
    /\ lastPub' = IF pending # 0 THEN <<pending, ltick[l]>> ELSE lastPub
    /\ pending' = 0
    /\ lpc' = [lpc EXCEPT ![l] = "discover"]
    /\ UNCHANGED <<pubVars, pc, calls, staleC, staleL, discLive, discStuck, ltick,
                   got, stopTargets, ticks, pollTicks, pollDecided, idVars, addrVars, fileVars, verVars, newVars, expVars>>

\* The discovery handler called without "go": the tick goes on when it has
\* returned.
LoopDiscoverSync(l) ==
    /\ lpc[l] = "discover"
    /\ IF discoverCountdown <= 0 /\ discoveryHandler
       THEN /\ discLive' = discLive + 1
            /\ discoverCountdown' = discoveryInterval
            /\ UNCHANGED lpc
       ELSE /\ discLive = 0
            /\ discoverCountdown' \in Decrement(l, discoverCountdown)
            /\ lpc' = [lpc EXCEPT ![l] = "poll"]
            /\ UNCHANGED discLive
    /\ UNCHANGED <<isRunning, mutex, discoveryInterval, discoveryHandler,
                   pollCountdown, pollInterval, pollHandler, messenger, subs,
                   pc, calls, staleC, staleL, discStuck, ltick, obsVars, idVars, addrVars, fileVars, verVars, newVars, expVars>>

\* The discovery handler is started in a goroutine of its own.
LoopDiscover(l) ==
    /\ lpc[l] = "discover"
    /\ IF discoverCountdown <= 0 /\ discoveryHandler
       THEN /\ discLive' = discLive + 1
            /\ discoverCountdown' \in Decrement(l, discoveryInterval)
       ELSE /\ discoverCountdown' \in Decrement(l, discoverCountdown)
            /\ UNCHANGED discLive
    /\ lpc' = [lpc EXCEPT ![l] = "poll"]
    /\ UNCHANGED <<isRunning, mutex, discoveryInterval, discoveryHandler,
                   pollCountdown, pollInterval, pollHandler, messenger, subs,
                   pc, calls, staleC, staleL, discStuck, ltick, obsVars, idVars, addrVars, fileVars, verVars, newVars, expVars>>

\* A discovery handler returns, or turns out to be one that never does.
DiscoveryReturn ==
    /\ discLive > (IF discStuck THEN 1 ELSE 0)
    /\ discLive' = discLive - 1
    /\ UNCHANGED <<pubVars, pc, lpc, calls, staleC, staleL, discStuck, ltick, obsVars, idVars, addrVars, fileVars, verVars, newVars, expVars>>

DiscoveryHang ==
    /\ discLive > 0
    /\ ~discStuck
    /\ discStuck' = TRUE
    /\ UNCHANGED <<pubVars, pc, lpc, calls, staleC, staleL, discLive, ltick, obsVars, idVars, addrVars, fileVars, verVars, newVars, expVars>>

\* The poll handler called only once the countdown is below zero.
LoopPollBelowZero(l) ==
    /\ lpc[l] = "poll"
    /\ IF pollCountdown < 0 /\ pollHandler
       THEN /\ lpc' = [lpc EXCEPT ![l] = "inPoll"]
            /\ pollTicks' = pollTicks \cup {ltick[l]}
            /\ UNCHANGED <<pollCountdown, pollDecided>>
       ELSE /\ pollCountdown' \in Decrement(l, pollCountdown)
            /\ lpc' = [lpc EXCEPT ![l] = "lock"]
            /\ pollDecided' = ltick[l]
            /\ UNCHANGED pollTicks
    /\ UNCHANGED <<isRunning, mutex, discoverCountdown, discoveryInterval, discoveryHandler,
                   pollInterval, pollHandler, messenger, subs,
                   pc, calls, staleC, staleL, discLive, discStuck, ltick,
                   got, stopTargets, ticks, pending, lastPub, idVars, addrVars, fileVars, verVars, newVars, expVars>>

\* The poll handler is called in the heartbeat goroutine itself.
LoopPoll(l) ==
    /\ lpc[l] = "poll"
    /\ IF pollCountdown <= 0 /\ pollHandler
       THEN /\ lpc' = [lpc EXCEPT ![l] = "inPoll"]
            /\ pollTicks' = pollTicks \cup {ltick[l]}
            /\ UNCHANGED <<pollCountdown, pollDecided>>
       ELSE /\ pollCountdown' \in Decrement(l, pollCountdown)
            /\ lpc' = [lpc EXCEPT ![l] = "lock"]
            /\ pollDecided' = ltick[l]
            /\ UNCHANGED pollTicks
    /\ UNCHANGED <<isRunning, mutex, discoverCountdown, discoveryInterval, discoveryHandler,
                   pollInterval, pollHandler, messenger, subs,
                   pc, calls, staleC, staleL, discLive, discStuck, ltick,
                   got, stopTargets, ticks, pending, lastPub, idVars, addrVars, fileVars, verVars, newVars, expVars>>

\* The countdown set to the interval and not decremented in the same tick.
PollReturnNoDecrement(l, polled) ==
    /\ lpc[l] = "inPoll"
    /\ pollCountdown' = pollInterval
    /\ pending' = IF polled /\ pending = 0 THEN ltick[l] ELSE pending
    /\ pollDecided' = ltick[l]
    /\ lpc' = [lpc EXCEPT ![l] = "lock"]
    /\ UNCHANGED <<isRunning, mutex, discoverCountdown, discoveryInterval, discoveryHandler,
                   pollInterval, pollHandler, messenger, subs,
                   pc, calls, staleC, staleL, discLive, discStuck, ltick,
                   got, stopTargets, ticks, pollTicks, lastPub, idVars, addrVars, fileVars, verVars, newVars, expVars>>

\* The output values published after the poll handler, in the same tick.
PollReturnPublishes(l, polled) ==
    /\ lpc[l] = "inPoll"
    /\ pollCountdown' \in Decrement(l, pollInterval)
    /\ lastPub' = IF polled THEN <<ltick[l], ltick[l]>> ELSE lastPub
    /\ pollDecided' = ltick[l]
    /\ lpc' = [lpc EXCEPT ![l] = "lock"]
    /\ UNCHANGED <<isRunning, mutex, discoverCountdown, discoveryInterval, discoveryHandler,
                   pollInterval, pollHandler, messenger, subs,
                   pc, calls, staleC, staleL, discLive, discStuck, ltick,
                   got, stopTargets, ticks, pollTicks, pending, idVars, addrVars, fileVars, verVars, newVars, expVars>>

\* The poll handler returns, having updated output values or not; the
\* countdown is set to the interval and decremented.
PollReturn(l, polled) ==
    /\ lpc[l] = "inPoll"
    /\ pollCountdown' \in Decrement(l, pollInterval)
    /\ pending' = IF polled /\ pending = 0 THEN ltick[l] ELSE pending
    /\ pollDecided' = ltick[l]
    /\ lpc' = [lpc EXCEPT ![l] = "lock"]
    /\ UNCHANGED <<isRunning, mutex, discoverCountdown, discoveryInterval, discoveryHandler,
                   pollInterval, pollHandler, messenger, subs,
                   pc, calls, staleC, staleL, discLive, discStuck, ltick,
                   got, stopTargets, ticks, pollTicks, lastPub, idVars, addrVars, fileVars, verVars, newVars, expVars>>

LoopLock(l) ==
    /\ lpc[l] = "lock"
    /\ Lock(LoopThread(l))
    /\ lpc' = [lpc EXCEPT ![l] = "check"]
    /\ staleL' = [staleL EXCEPT ![l] = FALSE]
    /\ UNCHANGED <<isRunning, discoverCountdown, discoveryInterval, discoveryHandler,
                   pollCountdown, pollInterval, pollHandler, messenger, subs,
                   pc, calls, staleC, discLive, discStuck, ltick, obsVars, idVars, addrVars, fileVars, verVars, newVars, expVars>>

\* The loop ended without its signal on exitChannel.
LoopCheckNoSignal(l) ==
    /\ lpc[l] = "check"
    /\ Unlock(LoopThread(l))
    /\ lpc' = [lpc EXCEPT ![l] = IF isRunning THEN "sleep" ELSE "done"]
    /\ UNCHANGED <<isRunning, discoverCountdown, discoveryInterval, discoveryHandler,
                   pollCountdown, pollInterval, pollHandler, messenger, subs,
                   pc, calls, staleC, staleL, discLive, discStuck, ltick, obsVars, idVars, addrVars, fileVars, verVars, newVars, expVars>>

\* isRunning is read under the mutex; the loop ends when it is false.
LoopCheck(l) ==
    /\ lpc[l] = "check"
    /\ Unlock(LoopThread(l))
    /\ lpc' = [lpc EXCEPT ![l] = IF isRunning THEN "sleep" ELSE "sendEnded"]
    /\ UNCHANGED <<isRunning, discoverCountdown, discoveryInterval, discoveryHandler,
                   pollCountdown, pollInterval, pollHandler, messenger, subs,
                   pc, calls, staleC, staleL, discLive, discStuck, ltick, obsVars, idVars, addrVars, fileVars, verVars, newVars, expVars>>

\* ---------------------------------------------------------------- identity
\* The key pairs there are; NoKey is the nil key.
Keys == {"key1", "key2", "key3"}
NoKey == "nil"
\* PEM text of a key, and its decoding.
PrivateKeyToPem(key) == <<"EC PRIVATE KEY", key>>
PublicKeyToPem(key) == <<"PUBLIC KEY", key>>
PrivateKeyFromPem(pem) == IF pem[1] = "EC PRIVATE KEY" THEN pem[2] ELSE NoKey

LocalDomain == "test"
LocalPublisherID == "publisher1"
DSSPublisherID == "$dss"
OtherPublisherIDs == {"publisher2", "publisher3"}
MakePublisherIdentityAddress(domain, publisherID) == <<domain, publisherID, "$identity">>
NoSender == <<>>

\* The addresses identity updates are sent from.
SenderAddresses ==
    {MakePublisherIdentityAddress(LocalDomain, id) : id \in {DSSPublisherID} \cup OtherPublisherIDs}

\* -------------------------------------------------------------------- time
\* An instant is a number of seconds since the start of BaseYear, UTC; the
\* local time is ahead of it by the zone offset, a number of hours.
Hour == 3600
Day == 24 * Hour
Year == 365 * Day
BaseYear == 2020
\* An identity is valid for a year.
Validity == Hour * 24 * 365

\* A number in decimal, zero-padded to a width.
DigitChars == <<"0", "1", "2", "3", "4", "5", "6", "7", "8", "9">>
RECURSIVE Padded(_, _)
Padded(n, width) ==
    IF width = 0 THEN <<>>
    ELSE Padded(n \div 10, width - 1) \o <<DigitChars[(n % 10) + 1]>>

\* The days of a year before each of its months (no leap years), and the
\* month a day of the year is in.
DaysBefore == <<0, 31, 59, 90, 120, 151, 181, 212, 243, 273, 304, 334>>
MonthOf(dayOfYear) ==
    CHOOSE m \in 1 .. 12 :
        /\ DaysBefore[m] <= dayOfYear
        /\ m < 12 => dayOfYear < DaysBefore[m + 1]

\* time.Time.Format with the layout "2006-01-02T15:04:05.000-0700": the local
\* date and time of the instant, zero-padded, and the zone offset.
Format(instant, offset) ==
    LET local == instant + offset * Hour
        days == local \div Day
        secs == local % Day
        dayOfYear == days % 365
        month == MonthOf(dayOfYear)
        hours == IF offset < 0 THEN 0 - offset ELSE offset
    IN  Padded(BaseYear + days \div 365, 4) \o <<"-">> \o Padded(month, 2) \o <<"-">>
            \o Padded(dayOfYear - DaysBefore[month] + 1, 2) \o <<"T">>
            \o Padded(secs \div Hour, 2) \o <<":">> \o Padded((secs % Hour) \div 60, 2)
            \o <<":">> \o Padded(secs % 60, 2) \o <<".">> \o Padded(0, 3)
            \o <<IF offset < 0 THEN "-" ELSE "+">> \o Padded(hours, 2) \o Padded(0, 2)

\* The code of a character of a timestamp.
Ord(ch) ==
    IF ch = "+" THEN 43
    ELSE IF ch = "-" THEN 45
    ELSE IF ch = "." THEN 46
    ELSE IF ch = ":" THEN 58
    ELSE IF ch = "T" THEN 84
    ELSE 47 + (CHOOSE i \in 1 .. 10 : DigitChars[i] = ch)

\* strings.Compare: -1, 0 or 1 as a is before, equal to or after b, byte by
\* byte.
RECURSIVE Compare(_, _)
Compare(a, b) ==
    IF a = <<>> /\ b = <<>> THEN 0
    ELSE IF a = <<>> THEN 0 - 1
    ELSE IF b = <<>> THEN 1
    ELSE IF Ord(Head(a)) < Ord(Head(b)) THEN 0 - 1
    ELSE IF Ord(Head(a)) > Ord(Head(b)) THEN 1
    ELSE Compare(Tail(a), Tail(b))

\* CreateIdentity with the key pair it generates: a self signed identity.
CreateIdentity(domain, publisherID, key) ==
    [address     |-> MakePublisherIdentityAddress(domain, publisherID),
     sender      |-> NoSender,
     domain      |-> domain,
     publisherID |-> publisherID,
     issuerName  |-> publisherID,
     publicKey   |-> PublicKeyToPem(key),
     privateKey  |-> PrivateKeyToPem(key),
     validUntil  |-> Format(now + Validity, zone)]

\* The identities a sender issues: for the local publisher or for another
\* one, with a new key pair.
IssuedIdentities ==
    {[CreateIdentity(LocalDomain, id, key) EXCEPT !.sender = from, !.issuerName = from[2]] :
        id \in {LocalPublisherID, "publisher2"}, key \in Keys, from \in SenderAddresses}

\* A message as it arrives: encrypted or not (for the holder of a key pair),
\* signed or not (with the private key of a key pair).
Messages ==
    [encrypted : BOOLEAN, encryptedFor : Keys, signed : BOOLEAN, signedWith : Keys,
     identity : IssuedIdentities]

\* messenger.DecryptMessage: whether the message is encrypted, and whether
\* its decryption with the private key fails.
DecryptMessage(message, privateKey) ==
    [isEncrypted |-> message.encrypted,
     err         |-> message.encrypted /\ message.encryptedFor # privateKey,
     dmessage    |-> message]

\* messenger.VerifySender: whether the message is signed, and whether its
\* signature fails to verify with the key on record for its sender (none on
\* record: it fails); the object is what the message holds.
VerifySender(dmessage, publisherKeys) ==
    [isSigned |-> dmessage.signed,
     err      |-> dmessage.signed
                    /\ (\/ publisherKeys[dmessage.identity.sender] = NoKey
                        \/ publisherKeys[dmessage.identity.sender] # dmessage.signedWith),
     object   |-> dmessage.identity]

\* How handleIdentityUpdate ends for a message.
IdentityUpdateOutcome(message) ==
    LET d == DecryptMessage(message, identityPrivateKey)
        v == VerifySender(d.dmessage, domainPublishers)
        dssAddress == MakePublisherIdentityAddress(LocalDomain, DSSPublisherID)
    IN  IF ~d.isEncrypted THEN "not encrypted"
        ELSE IF d.err THEN "decryption failed"
        ELSE IF ~v.isSigned THEN "not signed"
        ELSE IF v.err THEN "verification failed"
        ELSE IF v.object.sender # dssAddress THEN "sender is not the DSS"
        ELSE "sent by the DSS"

\* The return after a failed verification of the signature left out.
DiscardedOutcomesNoVerify == {"not encrypted", "decryption failed", "not signed"}

\* The outcomes after which handleIdentityUpdate returns at once: the four
\* checks that end in a return. The test of the sender only logs a warning.
DiscardedOutcomes ==
    {"not encrypted", "decryption failed", "not signed", "verification failed"}

handleIdentityUpdate(message) ==
    LET outcome == IdentityUpdateOutcome(message)
        fullId == VerifySender(DecryptMessage(message, identityPrivateKey).dmessage,
                               domainPublishers).object
    IN  /\ IF outcome \in DiscardedOutcomes
           THEN UNCHANGED <<fullIdentity, identityPrivateKey>>
           ELSE /\ identityPrivateKey' = PrivateKeyFromPem(fullId.privateKey)
                /\ fullIdentity' = fullId
        /\ lastOutcome' = outcome
        /\ UNCHANGED <<domainPublishers, pubVars, goVars, obsVars, addrVars, fileVars, verVars, newVars, expVars>>

\* The publisher starts with a self signed identity. Of the DSS and the other
\* publishers it knows the keys it has been told.
InitialKey == "key1"
InitIdentity(publisherKeys) ==
    /\ fullIdentity = CreateIdentity(LocalDomain, LocalPublisherID, InitialKey)
    /\ identityPrivateKey = InitialKey
    /\ domainPublishers = publisherKeys
    /\ lastOutcome = "none"

NobodyKnown == [a \in SenderAddresses |-> NoKey]
\* Who is on record: nobody, the DSS, publisher2, or both (each with its key).
Directories ==
    {[a \in SenderAddresses |->
        IF a[2] = DSSPublisherID /\ dss THEN "key2"
        ELSE IF a[2] = "publisher2" /\ other THEN "key3"
        ELSE NoKey] : dss \in BOOLEAN, other \in BOOLEAN}

\* ------------------------------------------------- VerifyMessageSignature
\* The goroutine of the messenger that hands a received message to the
\* publisher.
VerifierThread == <<"verifier", 0>>

\* A publisher's node as it is on record, and no node (nil).
NoNode == [Identity |-> [PublicKeySigning |-> <<>>], known |-> FALSE]
NodeOf(key) == [Identity |-> [PublicKeySigning |-> PublicKeyToPem(key)], known |-> TRUE]
\* messenger.DecodePublicKey
DecodePublicKey(pem) == IF pem # <<>> /\ pem[1] = "PUBLIC KEY" THEN pem[2] ELSE NoKey
\* messenger.VerifyEcdsaSignature: the signature was made with the private key
\* of pubKey.
VerifyEcdsaSignature(signedWith, pubKey) == pubKey # NoKey /\ signedWith = pubKey

\* The publishers on record: each of the others, with its key, or not.
NobodyOnRecord == [id \in OtherPublisherIDs |-> NoNode]
ZoneDirectories ==
    {[id \in OtherPublisherIDs |->
        IF id = "publisher2" /\ two THEN NodeOf("key2")
        ELSE IF id = "publisher3" /\ three THEN NodeOf("key3")
        ELSE NoNode] : two \in BOOLEAN, three \in BOOLEAN}
\* The keys messages are signed with: the sender's own or another one.
SigningKeys == {"key2", "key3"}

InitVer(directory) ==
    /\ zonePublishers = directory
    /\ vpc = "idle"
    /\ verifying = [sender |-> "", signedWith |-> NoKey]
    /\ node = NoNode
    /\ valid = FALSE

\* VerifyMessageSignature is called with a message that names its sender and
\* carries a signature; it takes the mutex.
VerifyLock(from, signedWith) ==
    /\ vpc \in {"idle", "returned"}
    /\ Lock(VerifierThread)
    /\ verifying' = [sender |-> from, signedWith |-> signedWith]
    /\ vpc' = "lookup"
    /\ UNCHANGED <<zonePublishers, node, valid,
                   isRunning, discoverCountdown, discoveryInterval, discoveryHandler,
                   pollCountdown, pollInterval, pollHandler, messenger, subs,
                   goVars, obsVars, idVars, addrVars, fileVars, newVars, expVars>>

\* node := publisher.zonePublishers[sender], and the mutex is released.
VerifyLookup ==
    /\ vpc = "lookup"
    /\ node' = zonePublishers[verifying.sender]
    /\ Unlock(VerifierThread)
    /\ vpc' = "verify"
    /\ UNCHANGED <<zonePublishers, verifying, valid,
                   isRunning, discoverCountdown, discoveryInterval, discoveryHandler,
                   pollCountdown, pollInterval, pollHandler, messenger, subs,
                   goVars, obsVars, idVars, addrVars, fileVars, newVars, expVars>>

\* The signature verified with the key that made it, whatever is on record.
VerifyReturnOwnKey ==
    /\ vpc = "verify"
    /\ valid' = IF ~node.known THEN FALSE
                ELSE VerifyEcdsaSignature(verifying.signedWith, verifying.signedWith)
    /\ vpc' = "returned"
    /\ UNCHANGED <<zonePublishers, verifying, node,
                   pubVars, goVars, obsVars, idVars, addrVars, fileVars, newVars, expVars>>

\* No node: false is returned. Or else the signature is verified with the
\* public key of the node, outside the mutex.
VerifyReturn ==
    /\ vpc = "verify"
    /\ valid' = IF ~node.known THEN FALSE
                ELSE VerifyEcdsaSignature(verifying.signedWith,
                                          DecodePublicKey(node.Identity.PublicKeySigning))
    /\ vpc' = "returned"
    /\ UNCHANGED <<zonePublishers, verifying, node,
                   pubVars, goVars, obsVars, idVars, addrVars, fileVars, newVars, expVars>>

\* ---------------------------------------------------------------- construction
\* NewPublisher has returned a publisher with the key it generated.
InitNew ==
    /\ constructed = "returned"
    /\ signPrivateKey = InitialKey

\* NewPublisher has not been called.
InitNotConstructed ==
    /\ constructed = "none"
    /\ signPrivateKey = NoKey

\* NewPublisher going on after the error it logs, with the nil key.
NewPublisherLogsOnly(key, generated) ==
    /\ constructed = "none"
    /\ signPrivateKey' = IF generated THEN key ELSE NoKey
    /\ constructed' = "returned"
    /\ UNCHANGED <<pubVars, goVars, obsVars, idVars, addrVars, fileVars, verVars, expVars>>

\* NewPublisher; generated: ecdsa.GenerateKey returned a key. Or else privKey
\* is nil: the error is logged, and &privKey.PublicKey, evaluated for
\* EncodeKeys, is a nil dereference: NewPublisher panics.
NewPublisher(key, generated) ==
    /\ constructed = "none"
    /\ signPrivateKey' = IF generated THEN key ELSE NoKey
    /\ constructed' = IF generated THEN "returned" ELSE "panicked"
    /\ UNCHANGED <<pubVars, goVars, obsVars, idVars, addrVars, fileVars, verVars, expVars>>

\* --------------------------------------------------------- outbound commands
\* A string is the sequence of its pieces: a piece is "/" or a run of
\* characters without "/".
Sep == "/"
SingleLevel == "+"
MessageTypeSet == "$set"
MessageTypeSetInput == "$set"
MessageTypeConfigure == "$configure"
PublisherNodeID == "$publisher"
MessageTypeNodeDiscovery == "$node"

\* strings.Split(s, "/"): the runs between the separators, empty ones included.
RECURSIVE Split(_)
Split(s) ==
    IF \A i \in 1 .. Len(s) : s[i] # Sep
    THEN <<s>>
    ELSE LET i == CHOOSE j \in 1 .. Len(s) : s[j] = Sep /\ \A k \in 1 .. (j - 1) : s[k] # Sep
         IN  <<SubSeq(s, 1, i - 1)>> \o Split(SubSeq(s, i + 1, Len(s)))

\* strings.Join(segments, "/")
RECURSIVE Join(_)
Join(segments) ==
    IF segments = <<>> THEN <<>>
    ELSE IF Len(segments) = 1 THEN segments[1]
    ELSE segments[1] \o <<Sep>> \o Join(Tail(segments))

\* The subscriptions of Start with "+" where the publisher is named.
SubscriptionPatternAnyPublisher(name) ==
    IF name = "configure"
    THEN <<LocalDomain, Sep, SingleLevel, Sep, SingleLevel, Sep, MessageTypeConfigure>>
    ELSE IF name = "set"
    THEN <<LocalDomain, Sep, SingleLevel, Sep, SingleLevel, Sep, MessageTypeSet,
           Sep, SingleLevel, Sep, SingleLevel>>
    ELSE <<LocalDomain, Sep, SingleLevel, Sep, PublisherNodeID, Sep, MessageTypeNodeDiscovery>>

\* The addresses Start subscribes to, as its fmt.Sprintf calls build them.
SubscriptionPattern(name) ==
    IF name = "configure"
    THEN <<LocalDomain, Sep, LocalPublisherID, Sep, SingleLevel, Sep, MessageTypeConfigure>>
    ELSE IF name = "set"
    THEN <<LocalDomain, Sep, LocalPublisherID, Sep, SingleLevel, Sep, MessageTypeSet,
           Sep, SingleLevel, Sep, SingleLevel>>
    ELSE <<LocalDomain, Sep, SingleLevel, Sep, PublisherNodeID, Sep, MessageTypeNodeDiscovery>>

\* The messenger's match of an address with a subscription: segment by
\* segment, "+" standing for exactly one segment.
TopicMatches(pattern, address) ==
    LET p == Split(pattern)
        a == Split(address)
    IN  /\ Len(p) = Len(a)
        /\ \A i \in 1 .. Len(p) : p[i] = <<SingleLevel>> \/ p[i] = a[i]

\* The destinations an application passes: up to MaxSegments segments.
Pieces == {LocalDomain, LocalPublisherID, "publisher2", MessageTypeSet}
Destinations ==
    {Join(segments) :
        segments \in UNION {[1 .. n -> {<<x>> : x \in Pieces}] : n \in 1 .. MaxSegments}}

InitAddr ==
    /\ command = [op |-> "none", destination |-> <<>>]
    /\ handed = <<>>
    /\ result = "none"
    /\ delivered = FALSE
    /\ routed = {}

\* The application publishes a command once its Start has returned; a command
\* is followed from the call to its delivery.
AppReady ==
    /\ \A c \in SeqCallers : pc[c] = "idle" /\ calls[c] # <<>>
    /\ command.op = "none"

\* PublishSetInput without the return that follows the error it logs.
PublishSetInputNoReturn(destination, published) ==
    LET segments == Split(destination)
        inputAddr == Join([segments EXCEPT ![6] = <<MessageTypeSetInput>>])
        setMessage == [Address |-> inputAddr, Sender |-> LocalPublisherID, Value |-> "true"]
    IN  /\ AppReady
        /\ command' = [op |-> "PublishSetInput", destination |-> destination]
        /\ handed' = <<[address |-> inputAddr, message |-> setMessage, published |-> published]>>
        /\ result' = IF published THEN "nil" ELSE "error"
        /\ delivered' = FALSE
        /\ routed' = {}
        /\ UNCHANGED <<pubVars, goVars, obsVars, idVars, fileVars, verVars, newVars, expVars>>

\* PublishSetInput with the message type put where Start's subscription has it.
PublishSetInputTypeAtNode(destination, published) ==
    LET segments == Split(destination)
        inputAddr == Join([segments EXCEPT ![4] = <<MessageTypeSetInput>>])
        setMessage == [Address |-> inputAddr, Sender |-> LocalPublisherID, Value |-> "true"]
    IN  /\ AppReady
        /\ command' = [op |-> "PublishSetInput", destination |-> destination]
        /\ IF Len(segments) < 6
           THEN handed' = <<>> /\ result' = "error"
           ELSE /\ handed' = <<[address |-> inputAddr, message |-> setMessage,
                                published |-> published]>>
                /\ result' = IF published THEN "nil" ELSE "error"
        /\ delivered' = FALSE
        /\ routed' = {}
        /\ UNCHANGED <<pubVars, goVars, obsVars, idVars, fileVars, verVars, newVars, expVars>>

\* PublishSetInput; published: messageSigner.PublishObject returns nil.
PublishSetInput(destination, published) ==
    LET segments == Split(destination)
        inputAddr == Join([segments EXCEPT ![6] = <<MessageTypeSetInput>>])
        setMessage == [Address |-> inputAddr, Sender |-> LocalPublisherID, Value |-> "true"]
    IN  /\ AppReady
        /\ command' = [op |-> "PublishSetInput", destination |-> destination]
        /\ IF Len(segments) < 6
           THEN handed' = <<>> /\ result' = "error"
           ELSE /\ handed' = <<[address |-> inputAddr, message |-> setMessage,
                                published |-> published]>>
                /\ result' = IF published THEN "nil" ELSE "error"
        /\ delivered' = FALSE
        /\ routed' = {}
        /\ UNCHANGED <<pubVars, goVars, obsVars, idVars, fileVars, verVars, newVars, expVars>>

\* PublishNodeConfigure: it has no result.
PublishNodeConfigure(destinationAddress, published) ==
    LET segments == Split(destinationAddress)
        configAddr == Join([segments EXCEPT ![4] = <<MessageTypeConfigure>>])
        configureMessage == [Address |-> configAddr, Sender |-> LocalPublisherID,
                             Value |-> "attr"]
    IN  /\ AppReady
        /\ command' = [op |-> "PublishNodeConfigure", destination |-> destinationAddress]
        /\ IF Len(segments) < 4
           THEN handed' = <<>>
           ELSE handed' = <<[address |-> configAddr, message |-> configureMessage,
                             published |-> published]>>
        /\ result' = "void"
        /\ delivered' = FALSE
        /\ routed' = {}
        /\ UNCHANGED <<pubVars, goVars, obsVars, idVars, fileVars, verVars, newVars, expVars>>

\* The messenger delivers a published message to the handlers whose
\* subscription matches its address.
Route ==
    /\ handed # <<>>
    /\ handed[1].published
    /\ ~delivered
    /\ delivered' = TRUE
    /\ routed' = {name \in subs : TopicMatches(SubscriptionPattern(name), handed[1].address)}
    /\ UNCHANGED <<command, handed, result, pubVars, goVars, obsVars, idVars, fileVars, verVars, newVars, expVars>>

\* ------------------------------------------------------------ identity file
NoIdentity == [address |-> <<>>]
NoResult == [identity |-> NoIdentity, key |-> NoKey]
EmptyString == <<>>
NoFile == [kind |-> "absent"]
Garbage == [kind |-> "garbage"]

\* json.MarshalIndent of an identity, what ioutil.WriteFile leaves of it when
\* it does not finish, and json.Unmarshal of what ioutil.ReadFile read.
Marshal(identity) == [kind |-> "json", doc |-> identity]
Truncated(identity) == [kind |-> "partial", doc |-> identity]
Unmarshal(content) ==
    IF content.kind = "json"
    THEN [err |-> FALSE, doc |-> content.doc]
    ELSE [err |-> TRUE, doc |-> NoIdentity]

\* IsIdentityExpired: the timestamp of now compares greater than validUntil.
IsIdentityExpired(identity) ==
    LET timestampStr == Format(now, zone)
        nowIsGreater == Compare(timestampStr, identity.validUntil)
    IN  nowIsGreater > 0

\* LoadIdentity: read the file, unmarshal it, check it for consistency.
LoadIdentity(content, publisherID) ==
    LET u == Unmarshal(content)
        failed == [err |-> TRUE, fullIdentity |-> NoIdentity, privateKey |-> NoKey]
    IN  IF content.kind = "absent" THEN failed
        ELSE IF u.err THEN failed
        ELSE IF \/ u.doc.domain = ""
                \/ u.doc.publisherID # publisherID
                \/ u.doc.address # MakePublisherIdentityAddress(u.doc.domain, publisherID)
                \/ u.doc.publicKey = EmptyString
                \/ u.doc.privateKey = EmptyString
        THEN failed
        ELSE [err |-> FALSE, fullIdentity |-> u.doc,
              privateKey |-> PrivateKeyFromPem(u.doc.privateKey)]

\* The test of SetupPublisherIdentity: the identity is recreated.
MustRecreate(content, domain, publisherID) ==
    LET l == LoadIdentity(content, publisherID)
    IN  \/ l.err
        \/ l.fullIdentity.domain # domain
        \/ l.fullIdentity.publisherID # publisherID
        \/ l.fullIdentity.address # MakePublisherIdentityAddress(domain, publisherID)
        \/ l.fullIdentity.publicKey = EmptyString

\* What may be in the identity file when the publisher is first set up:
\* nothing, no JSON, or an identity, whoever wrote or edited it.
SetupDomains == {"", LocalDomain}
StoredIdentities ==
    {[address     |-> a,
      sender      |-> NoSender,
      domain      |-> d,
      publisherID |-> id,
      issuerName  |-> id,
      publicKey   |-> pub,
      privateKey  |-> priv,
      validUntil  |-> t] :
        d \in SetupDomains \cup {"other"},
        id \in {LocalPublisherID, "publisher2"},
        a \in {MakePublisherIdentityAddress(LocalDomain, LocalPublisherID),
               MakePublisherIdentityAddress("", LocalPublisherID),
               MakePublisherIdentityAddress("other", LocalPublisherID)},
        pub \in {PublicKeyToPem("key2"), EmptyString},
        priv \in {PrivateKeyToPem("key2"), EmptyString},
        t \in {Format(0, 0), Format(Validity, 0)}}
InitialFiles == {NoFile, Garbage} \cup {Marshal(identity) : identity \in StoredIdentities}

InitFile(content) ==
    /\ file = content
    /\ spc = "idle"
    /\ setupDomain = LocalDomain
    /\ created = NoIdentity
    /\ setupResult = NoResult
    /\ fileAtCall = content
    /\ saveErr = FALSE
    /\ now = 0
    /\ zone = 0

\* The process is not inside SetupPublisherIdentity.
Outside == spc \in {"idle", "returned", "crashed", "crashedInSave", "panicked"}
\* It is inside SaveIdentity ("return": at the test of the error of WriteFile).
InSave == spc \in {"remove", "open", "writing", "return"}

\* The key of an identity, and the keys ecdsa.GenerateKey may return: a key
\* that is in no identity so far.
KeyOf(identity) ==
    IF identity = NoIdentity THEN NoKey
    ELSE IF identity.privateKey = EmptyString THEN NoKey
    ELSE PrivateKeyFromPem(identity.privateKey)
FreshKeys ==
    Keys \ {KeyOf(created), IF fileAtCall.kind = "json" THEN KeyOf(fileAtCall.doc) ELSE NoKey}

\* SetupPublisherIdentity without the comparison of the stored domain with
\* the domain asked for.
SetupCallAnyDomain(domain) ==
    LET l == LoadIdentity(file, LocalPublisherID)
    IN  /\ Outside
        /\ setupDomain' = domain
        /\ fileAtCall' = file
        /\ saveErr' = FALSE
        /\ IF l.err
           THEN /\ spc' = "create"
                /\ setupResult' = NoResult
           ELSE /\ spc' = "returned"
                /\ setupResult' = [identity |-> l.fullIdentity, key |-> l.privateKey]
        /\ UNCHANGED <<file, created, now, zone, pubVars, goVars, obsVars, idVars, addrVars, verVars, newVars, expVars>>

\* SetupPublisherIdentity recreating an identity that is expired.
SetupCallRenewsExpired(domain) ==
    LET l == LoadIdentity(file, LocalPublisherID)
    IN  /\ Outside
        /\ setupDomain' = domain
        /\ fileAtCall' = file
        /\ saveErr' = FALSE
        /\ IF MustRecreate(file, domain, LocalPublisherID)
              \/ IsIdentityExpired(l.fullIdentity)
           THEN /\ spc' = "create"
                /\ setupResult' = NoResult
           ELSE /\ spc' = "returned"
                /\ setupResult' = [identity |-> l.fullIdentity, key |-> l.privateKey]
        /\ UNCHANGED <<file, created, now, zone, pubVars, goVars, obsVars, idVars, addrVars, verVars, newVars, expVars>>

\* SetupPublisherIdentity, to the end of its test of the loaded identity;
\* a process that crashed or panicked has been started again.
SetupCall(domain) ==
    LET l == LoadIdentity(file, LocalPublisherID)
    IN  /\ Outside
        /\ setupDomain' = domain
        /\ fileAtCall' = file
        /\ saveErr' = FALSE
        /\ IF MustRecreate(file, domain, LocalPublisherID)
           THEN /\ spc' = "create"
                /\ setupResult' = NoResult
           ELSE /\ spc' = "returned"
                /\ setupResult' = [identity |-> l.fullIdentity, key |-> l.privateKey]
        /\ UNCHANGED <<file, created, now, zone, pubVars, goVars, obsVars, idVars, addrVars, verVars, newVars, expVars>>

\* CreateIdentity; generated: ecdsa.GenerateKey returned a key, or else it
\* panics.
SetupCreate(key, generated) ==
    /\ spc = "create"
    /\ key \in FreshKeys
    /\ IF generated
       THEN /\ created' = CreateIdentity(setupDomain, LocalPublisherID, key)
            /\ spc' = "remove"
       ELSE /\ spc' = "panicked"
            /\ UNCHANGED created
    /\ UNCHANGED <<file, setupDomain, setupResult, fileAtCall, saveErr, now, zone,
                   pubVars, goVars, obsVars, idVars, addrVars, verVars, newVars, expVars>>

\* SaveIdentity: os.Remove, its error ignored.
SaveRemove(removed) ==
    /\ spc = "remove"
    /\ file' = IF removed THEN NoFile ELSE file
    /\ spc' = "open"
    /\ UNCHANGED <<setupDomain, created, setupResult, fileAtCall, saveErr, now, zone,
                   pubVars, goVars, obsVars, idVars, addrVars, verVars, newVars, expVars>>

\* The file opened for writing without being truncated: what was in it stays
\* behind what is written.
SaveOpenNoTruncate(opened) ==
    /\ spc = "open"
    /\ IF opened
       THEN /\ file' = IF file = NoFile THEN Truncated(created)
                                        ELSE [kind |-> "mixed", doc |-> created]
            /\ spc' = "writing"
            /\ UNCHANGED saveErr
       ELSE /\ saveErr' = TRUE
            /\ spc' = "return"
            /\ UNCHANGED file
    /\ UNCHANGED <<setupDomain, created, setupResult, fileAtCall, now, zone,
                   pubVars, goVars, obsVars, idVars, addrVars, verVars, newVars, expVars>>

\* ioutil.WriteFile opens the file and truncates it, or fails to.
SaveOpen(opened) ==
    /\ spc = "open"
    /\ IF opened
       THEN /\ file' = Truncated(created)
            /\ spc' = "writing"
            /\ UNCHANGED saveErr
       ELSE /\ saveErr' = TRUE
            /\ spc' = "return"
            /\ UNCHANGED file
    /\ UNCHANGED <<setupDomain, created, setupResult, fileAtCall, now, zone,
                   pubVars, goVars, obsVars, idVars, addrVars, verVars, newVars, expVars>>

\* ioutil.WriteFile writes the document and closes the file, or fails to.
SaveWrite(written) ==
    /\ spc = "writing"
    /\ IF written
       THEN file' = Marshal(created) /\ UNCHANGED saveErr
       ELSE saveErr' = TRUE /\ UNCHANGED file
    /\ spc' = "return"
    /\ UNCHANGED <<setupDomain, created, setupResult, fileAtCall, now, zone,
                   pubVars, goVars, obsVars, idVars, addrVars, verVars, newVars, expVars>>

\* SetupPublisherIdentity returns what it created; the error of SaveIdentity
\* is dropped.
SetupReturn ==
    /\ spc = "return"
    /\ setupResult' = [identity |-> created, key |-> PrivateKeyFromPem(created.privateKey)]
    /\ spc' = "returned"
    /\ UNCHANGED <<file, setupDomain, created, fileAtCall, saveErr, now, zone,
                   pubVars, goVars, obsVars, idVars, addrVars, verVars, newVars, expVars>>

\* The process dies inside SetupPublisherIdentity.
Crash ==
    /\ ~Outside
    /\ spc' = IF InSave THEN "crashedInSave" ELSE "crashed"
    /\ UNCHANGED <<file, setupDomain, created, setupResult, fileAtCall, saveErr, now, zone,
                   pubVars, goVars, obsVars, idVars, addrVars, verVars, newVars, expVars>>

\* A year passes while the process is not inside SetupPublisherIdentity.
Tick ==
    /\ Outside
    /\ now < MaxTime * Year
    /\ now' = now + Year
    /\ UNCHANGED <<file, spc, setupDomain, created, setupResult, fileAtCall, saveErr, zone,
                   pubVars, goVars, obsVars, idVars, addrVars, verVars, newVars, expVars>>

\* ------------------------------------------------------------------- expiry
\* The instants at which identities are checked: the seconds around one day
\* of the second year.
Reference == Year + Day
Nows == {Reference + k : k \in (0 - MaxSeconds) .. MaxSeconds}
\* The instants to which identities are valid: the same, a year earlier and a
\* year later.
Untils == Nows \cup {t - Year : t \in Nows} \cup {t + Year : t \in Nows}
\* The zone offsets of local time: with and without daylight saving.
Zones == {0, 1}

NotChecked == [done |-> FALSE]
InitExp == checked = NotChecked

\* IsIdentityExpired is called with an identity whose validUntil was written,
\* for the instant until, where the zone offset was writtenIn.
CheckExpired(until, writtenIn) ==
    LET identity == [validUntil |-> Format(until, writtenIn)]
    IN  /\ checked' = [done       |-> TRUE,
                       validUntil |-> identity.validUntil,
                       until      |-> until,
                       writtenIn  |-> writtenIn,
                       at         |-> now,
                       readIn     |-> zone,
                       timestamp  |-> Format(now, zone),
                       expired    |-> IsIdentityExpired(identity)]
        /\ UNCHANGED <<pubVars, goVars, obsVars, idVars, addrVars, fileVars, verVars, newVars>>

\* A second passes; the result of the last call has been used.
Second ==
    /\ now + 1 \in Nows
    /\ now' = now + 1
    /\ checked' = NotChecked
    /\ UNCHANGED <<file, spc, setupDomain, created, setupResult, fileAtCall, saveErr, zone,
                   pubVars, goVars, obsVars, idVars, addrVars, verVars, newVars>>

\* Daylight saving begins or ends.
ZoneChange(offset) ==
    /\ offset # zone
    /\ zone' = offset
    /\ checked' = NotChecked
    /\ UNCHANGED <<file, spc, setupDomain, created, setupResult, fileAtCall, saveErr, now,
                   pubVars, goVars, obsVars, idVars, addrVars, verVars, newVars>>

\* ------------------------------------------------------------ specification
Intervals == 0 .. MaxInterval
FewIntervals == {1}

Configure(intervals) ==
    \E n \in intervals, h \in BOOLEAN :
        \/ SetDiscoveryInterval(n, h)
        \/ SetPollingInterval(n, h)
        \/ SetPollInterval(n, h)

CallerStep(c, maxCalls) ==
    \/ StartEnter(c, maxCalls)
    \/ StartLock(c)
    \/ StartSet(c)
    \/ StartSpawn(c)
    \/ StartConnect(c)
    \/ StopLock(c, maxCalls)
    \/ StopCheck(c)
    \/ StopBye(c)

LoopStep(l, maxTicks) ==
    \/ LoopSleep(l, maxTicks)
    \/ LoopPublish(l)
    \/ LoopDiscover(l)
    \/ LoopPoll(l)
    \/ LoopLock(l)
    \/ LoopCheck(l)

HandlerReturn(l) == \E polled \in BOOLEAN : PollReturn(l, polled)

\* Any number of goroutines call Start and Stop.
Next ==
    \/ \E c \in Callers : CallerStep(c, MaxConcCalls)
    \/ \E l \in Loops : LoopStep(l, MaxConcTicks)
    \/ \E l \in Loops, c \in Callers : LoopSendBegun(l, c)
    \/ \E l \in Loops, c \in Callers : LoopSendEnded(l, c)

Init ==
    /\ InitRuntime
    /\ InitAddr
    /\ InitFile(NoFile)
    /\ InitIdentity(NobodyKnown)
    /\ InitVer(NobodyOnRecord)
    /\ InitNew
    /\ InitExp

Spec == Init /\ [][Next]_vars

\* One goroutine calls Start and Stop, one call after the other.
NextSeq ==
    \/ Configure(Intervals)
    \/ \E c \in SeqCallers : CallerStep(c, MaxCalls)
    \/ \E l \in Loops : LoopStep(l, MaxTicks)
    \/ \E l \in Loops : HandlerReturn(l)
    \/ \E l \in Loops, c \in SeqCallers : LoopSendBegun(l, c)
    \/ \E l \in Loops, c \in SeqCallers : LoopSendEnded(l, c)
    \/ DiscoveryReturn
    \/ DiscoveryHang

SpecSeq == Init /\ [][NextSeq]_vars

\* The same under the fairness of the Go scheduler: a goroutine that can take
\* its next step takes it, and a poll handler that was called returns. Nobody
\* has to call Start or Stop, and a discovery handler need not return.
NextFair ==
    \/ Configure(FewIntervals)
    \/ \E c \in SeqCallers : CallerStep(c, MaxFairCalls)
    \/ \E l \in Loops : LoopStep(l, MaxFairTicks)
    \/ \E l \in Loops : HandlerReturn(l)
    \/ \E l \in Loops, c \in SeqCallers : LoopSendBegun(l, c)
    \/ \E l \in Loops, c \in SeqCallers : LoopSendEnded(l, c)
    \/ DiscoveryReturn
    \/ DiscoveryHang

LoopProgress == \E l \in Loops : LoopStep(l, MaxFairTicks) \/ HandlerReturn(l)
CallerProgress ==
    \E c \in SeqCallers :
        StartLock(c) \/ StartSet(c) \/ StartSpawn(c) \/ StartConnect(c)
            \/ StopCheck(c) \/ StopBye(c)
Rendezvous == \E l \in Loops, c \in SeqCallers : LoopSendBegun(l, c) \/ LoopSendEnded(l, c)

FairSeq ==
    /\ Init
    /\ [][NextFair]_vars
    /\ WF_vars(LoopProgress)
    /\ WF_vars(CallerProgress)
    /\ WF_vars(Rendezvous)

\* Any number of goroutines call Start and Stop, under the fairness of the Go
\* scheduler: a goroutine that can take its next step takes it, and a send
\* and a receive that can meet on exitChannel do. Nobody has to call Start or
\* Stop.
NextFairConc ==
    \/ \E c \in Callers : CallerStep(c, MaxFairConcCalls)
    \/ \E l \in Loops : LoopStep(l, MaxFairConcTicks)
    \/ \E l \in Loops, c \in Callers : LoopSendBegun(l, c)
    \/ \E l \in Loops, c \in Callers : LoopSendEnded(l, c)

ConcLoopProgress(l) == LoopStep(l, MaxFairConcTicks)
ConcCallerProgress(c) ==
    StartLock(c) \/ StartSet(c) \/ StartSpawn(c) \/ StartConnect(c)
        \/ StopCheck(c) \/ StopBye(c)
ConcRendezvous == \E l \in Loops, c \in Callers : LoopSendBegun(l, c) \/ LoopSendEnded(l, c)

FairConc ==
    /\ Init
    /\ [][NextFairConc]_vars
    /\ \A l \in Loops : WF_vars(ConcLoopProgress(l))
    /\ \A c \in Callers : WF_vars(ConcCallerProgress(c))
    /\ WF_vars(ConcRendezvous)

\* The identity updates a publisher receives, whatever it knows of the others.
InitId ==
    /\ InitRuntime
    /\ InitAddr
    /\ InitFile(NoFile)
    /\ \E publisherKeys \in Directories : InitIdentity(publisherKeys)
    /\ InitVer(NobodyOnRecord)
    /\ InitNew
    /\ InitExp

NextId == \E message \in Messages : handleIdentityUpdate(message)

SpecId == InitId /\ [][NextId]_vars

\* The application calls PublishSetInput or PublishNodeConfigure with some
\* destination.
CallPublishSetInput ==
    /\ AppReady
    /\ \E destination \in Destinations, published \in BOOLEAN :
          PublishSetInput(destination, published)
CallPublishNodeConfigure ==
    /\ AppReady
    /\ \E destination \in Destinations, published \in BOOLEAN :
          PublishNodeConfigure(destination, published)

\* The application starts the publisher and publishes commands to inputs and
\* nodes; the messenger delivers them.
NextAddr ==
    \/ \E c \in SeqCallers :
          \/ StartEnter(c, Cardinality(SeqCallers))
          \/ StartLock(c)
          \/ StartSet(c)
          \/ StartSpawn(c)
          \/ StartConnect(c)
    \/ \E l \in Loops, c \in SeqCallers : LoopSendBegun(l, c)
    \/ CallPublishSetInput
    \/ CallPublishNodeConfigure
    \/ Route

SpecAddr == Init /\ [][NextAddr]_vars

\* The publisher's process is started, and started again, with whatever is in
\* the identity file.
InitSetup ==
    /\ InitRuntime
    /\ InitAddr
    /\ \E content \in InitialFiles : InitFile(content)
    /\ InitIdentity(NobodyKnown)
    /\ InitVer(NobodyOnRecord)
    /\ InitNew
    /\ InitExp

NextSetup ==
    \/ \E domain \in SetupDomains : SetupCall(domain)
    \/ \E key \in Keys, generated \in BOOLEAN : SetupCreate(key, generated)
    \/ \E removed \in BOOLEAN : SaveRemove(removed)
    \/ \E opened \in BOOLEAN : SaveOpen(opened)
    \/ \E written \in BOOLEAN : SaveWrite(written)
    \/ SetupReturn
    \/ Crash
    \/ Tick

SpecSetup == InitSetup /\ [][NextSetup]_vars

\* The messenger hands received messages to VerifyMessageSignature while
\* the application calls Start and Stop and the heartbeat loop runs.
InitVerify ==
    /\ InitRuntime
    /\ InitAddr
    /\ InitFile(NoFile)
    /\ InitIdentity(NobodyKnown)
    /\ \E directory \in ZoneDirectories : InitVer(directory)
    /\ InitNew
    /\ InitExp

NextVerify ==
    \/ \E c \in SeqCallers : CallerStep(c, MaxVerCalls)
    \/ \E l \in Loops : LoopStep(l, MaxVerTicks)
    \/ \E l \in Loops, c \in SeqCallers : LoopSendBegun(l, c)
    \/ \E l \in Loops, c \in SeqCallers : LoopSendEnded(l, c)
    \/ \E from \in OtherPublisherIDs, signedWith \in SigningKeys : VerifyLock(from, signedWith)
    \/ VerifyLookup
    \/ VerifyReturn

SpecVerify == InitVerify /\ [][NextVerify]_vars

\* The process of a publisher from its start: it sets up its identity, makes
\* the publisher, and starts and stops it once it has one.
BootFiles ==
    {NoFile} \cup
        {Marshal(identity) : identity \in
            {i \in StoredIdentities :
                /\ i.domain = "other"
                /\ i.publisherID = LocalPublisherID
                /\ i.address = MakePublisherIdentityAddress(i.domain, LocalPublisherID)
                /\ i.publicKey # EmptyString
                /\ i.privateKey # EmptyString
                /\ i.validUntil = Format(Validity, 0)}}

InitBoot ==
    /\ InitRuntime
    /\ InitAddr
    /\ \E content \in BootFiles : InitFile(content)
    /\ InitIdentity(NobodyKnown)
    /\ InitVer(NobodyOnRecord)
    /\ InitNotConstructed
    /\ InitExp

\* The process sets up its identity before it makes the publisher, and makes
\* the publisher when it is not inside SetupPublisherIdentity.
NotConstructed == constructed = "none"
Constructed == constructed = "returned"

NextBoot ==
    \/ NotConstructed /\ \E domain \in SetupDomains : SetupCall(domain)
    \/ \E key \in Keys, generated \in BOOLEAN : SetupCreate(key, generated)
    \/ \E removed \in BOOLEAN : SaveRemove(removed)
    \/ \E opened \in BOOLEAN : SaveOpen(opened)
    \/ \E written \in BOOLEAN : SaveWrite(written)
    \/ SetupReturn
    \/ Outside /\ \E key \in Keys, generated \in BOOLEAN : NewPublisher(key, generated)
    \/ Constructed /\ \E c \in SeqCallers : CallerStep(c, MaxBootCalls)
    \/ \E l \in Loops : LoopStep(l, MaxBootTicks)
    \/ \E l \in Loops, c \in SeqCallers : LoopSendBegun(l, c)
    \/ \E l \in Loops, c \in SeqCallers : LoopSendEnded(l, c)

SpecBoot == InitBoot /\ [][NextBoot]_vars

\* Identities are checked for expiry, whenever and wherever their validUntil
\* was written.
InitClock(instant, offset) ==
    /\ file = NoFile
    /\ spc = "idle"
    /\ setupDomain = LocalDomain
    /\ created = NoIdentity
    /\ setupResult = NoResult
    /\ fileAtCall = NoFile
    /\ saveErr = FALSE
    /\ now = instant
    /\ zone = offset

InitExpiry ==
    /\ InitRuntime
    /\ InitAddr
    /\ \E instant \in Nows, offset \in Zones : InitClock(instant, offset)
    /\ InitIdentity(NobodyKnown)
    /\ InitVer(NobodyOnRecord)
    /\ InitNew
    /\ InitExp

NextExpiry ==
    \/ \E until \in Untils, writtenIn \in Zones : CheckExpired(until, writtenIn)
    \/ Second
    \/ \E offset \in Zones : ZoneChange(offset)

SpecExpiry == InitExpiry /\ [][NextExpiry]_vars

\* ------------------------------------------------------------------ claims
DssAddress == MakePublisherIdentityAddress(LocalDomain, DSSPublisherID)

\* C1: the identity in place is the one the publisher created itself or one
\* whose verified sender is the DSS of the domain: no update from another
\* sender replaces the identity or the private key.
C1_IdentityOnlyFromDss == fullIdentity.sender \in {NoSender, DssAddress}

\* C2: an update that is not encrypted, fails to decrypt, is not signed or
\* fails the verification of its signature changes nothing: not the identity,
\* not the private key, not the keys on record.
C2_FailedUpdateChangesNothing ==
    [][lastOutcome' \in {"not encrypted", "decryption failed", "not signed",
                         "verification failed"}
         => UNCHANGED <<fullIdentity, identityPrivateKey, domainPublishers, pubVars>>]_vars
\* An update with a forged signature is dropped after one of the DSS was applied.
C2_Witness ==
    /\ lastOutcome = "verification failed"
    /\ fullIdentity.sender = DssAddress
    /\ identityPrivateKey # InitialKey

Last(q) == q[Len(q)]
StopReturned(c) == pc[c] = "idle" /\ calls[c] # <<>> /\ Last(calls[c]) = "Stop"

\* C3: when a Stop that found the running flag set returns, it has taken the
\* loop's "ended" signal and the heartbeat loops that were live when it cleared
\* the flag have exited: they publish no more and call no handler.
C3_StopReturnsAfterLoopExit ==
    \A c \in Callers :
        pc[c] = "stop_bye" =>
            /\ got[c] = "ended"
            /\ \A l \in stopTargets[c] : lpc[l] \in {"sendEnded", "done"}

\* C4: at most one heartbeat loop is live at any time.
C4_AtMostOneLoop == Cardinality(TickingLoops) <= 1

\* C5: a Stop that finds the publisher not running returns at once, without
\* waiting on exitChannel, and changes nothing of the publisher; Start, Stop,
\* Stop ends with the publisher stopped.
StopOfStopped(c) == pc[c] = "stop_locked" /\ ~isRunning /\ pc'[c] # pc[c]
C5_StopIdempotent ==
    /\ [][\A c \in SeqCallers :
            StopOfStopped(c) =>
                /\ pc'[c] = "idle"
                /\ UNCHANGED <<isRunning, discoverCountdown, discoveryInterval,
                               discoveryHandler, pollCountdown, pollInterval, pollHandler,
                               messenger, subs, lpc, got>>]_vars
    /\ [](\A c \in SeqCallers :
            (pc[c] = "idle" /\ Len(calls[c]) = 3 /\ calls[c][1] = "Start"
                /\ calls[c][2] \in {"Stop", "StopNoop"} /\ calls[c][3] \in {"Stop", "StopNoop"})
            => (calls[c][3] = "StopNoop" /\ ~isRunning /\ LiveLoops = {} /\ mutex = Free))
C5_Witness ==
    calls[1] = <<"Start", "Stop", "StopNoop">> /\ pc[1] = "idle" /\ ticks >= 1

\* C6: with poll interval 1 and a poll handler set before Start, once at least
\* one tick has run and Stop has returned, the poll handler was invoked.
C6_PolledAfterOneTick ==
    (pollHandler /\ pollInterval = 1 /\ ticks >= 1 /\ StopReturned(1)) => pollTicks # {}

\* C7: with a poll handler and a poll interval N >= 1, from the first tick
\* that invokes the poll handler on, a tick invokes it exactly when it is a
\* multiple of N ticks later.
FirstPoll == CHOOSE t \in pollTicks : \A u \in pollTicks : t <= u
C7_PollOncePerInterval ==
    (pollHandler /\ pollInterval >= 1 /\ pollTicks # {}) =>
        \A t \in FirstPoll .. pollDecided :
            (t \in pollTicks) <=> ((t - FirstPoll) % pollInterval = 0)
C7_Witness ==
    pollHandler /\ pollInterval = 2 /\ pollTicks = {2, 4} /\ pollDecided = 4

\* C8 as stated: what the poll handler produced in a tick is published by the
\* end of that tick, the last tick before the loop exits included.
C8_PublishedInSameTick ==
    \A l \in Loops : lpc[l] \in {"lock", "check", "sendEnded"} => pending # ltick[l]
\* C8 as amended: the publish step of a tick is over before the poll handler
\* is called, so polled values are published by the publish step of the next
\* tick, and never in the tick that polled them.
C8_PublishedInNextTick ==
    /\ lastPub # <<0, 0>> => lastPub[2] = lastPub[1] + 1
    /\ \A l \in Loops : lpc[l] = "inPoll" => pending = 0
    /\ \A l \in Loops : lpc[l] = "sendEnded" => lastPub[1] # ltick[l]
C8_Witness ==
    /\ lastPub = <<2, 3>>
    /\ \E l \in Loops : lpc[l] = "done" /\ pending = ltick[l]
    /\ StopReturned(1)

\* C9: a discovery handler that never returns holds up nothing: the tick goes
\* on to its poll step and to its check of the running flag, the next tick
\* begins, and a Stop that waits returns.
C9_DiscoveryNeverBlocks ==
    /\ (discStuck /\ \E l \in Loops : lpc[l] = "poll")
           ~> (\E l \in Loops : lpc[l] = "check")
    /\ (discStuck /\ \E l \in Loops : lpc[l] = "sleep" /\ ticks < MaxFairTicks)
           ~> (\E l \in Loops : lpc[l] = "publish")
    /\ (discStuck /\ pc[1] = "stop_wait") ~> StopReturned(1)
C9_Witness ==
    discStuck /\ StopReturned(1) /\ LiveLoops = {} /\ ticks >= 2

\* C10: a Stop that found the publisher running returns in the end, the loop
\* having seen the cleared flag and signalled its exit.
C10_StopReturns ==
    (pc[1] = "stop_wait") ~> (StopReturned(1) /\ got[1] = "ended" /\ LiveLoops = {})
C10_Witness ==
    StopReturned(1) /\ got[1] = "ended" /\ LiveLoops = {} /\ pollTicks # {}

\* The destination of the last command, in segments, and whether
\* PublishSetInput or PublishNodeConfigure finds it too short.
Dest == Split(command.destination)
IsLocal(segments) ==
    /\ Len(segments) >= 2
    /\ segments[1] = <<LocalDomain>>
    /\ segments[2] = <<LocalPublisherID>>
TooShort ==
    \/ command.op = "PublishSetInput" /\ Len(Dest) < 6
    \/ command.op = "PublishNodeConfigure" /\ Len(Dest) < 4

\* C11: a set command PublishSetInput published for a 6-segment input address
\* of the local domain and publisher is delivered to handleNodeInput through
\* the input-set subscription of Start.
C11_SetInputRouted ==
    (command.op = "PublishSetInput" /\ Len(Dest) = 6 /\ IsLocal(Dest) /\ delivered)
        => "set" \in routed

\* C12: a message whose address does not begin with the local domain and the
\* local publisher ID is delivered neither to handleNodeConfigCommand nor to
\* handleNodeInput.
C12_OtherPublisherNotRouted ==
    (delivered /\ ~IsLocal(Split(handed[1].address)))
        => routed \cap {"configure", "set"} = {}
\* A message that the input-set subscription would take but for its publisher.
C12_Witness ==
    /\ delivered
    /\ Split(handed[1].address) =
          <<<<LocalDomain>>, <<"publisher2">>, <<LocalPublisherID>>, <<MessageTypeSet>>,
            <<LocalPublisherID>>, <<MessageTypeSetInput>>>>
    /\ routed = {}

\* C13: a destination with too few segments is answered with an error.
C13_ShortAddressIsError == TooShort => result = "error"

\* C14: with a destination of too few segments no message is built and
\* nothing is handed to the message signer.
C14_ShortAddressNoMessage == TooShort => (handed = <<>> /\ ~delivered /\ routed = {})
C14_Witness ==
    /\ command.op = "PublishSetInput"
    /\ Len(Dest) = 5
    /\ IsLocal(Dest)
    /\ handed = <<>>
    /\ result = "error"

\* C15: for a destination of 6 segments or more PublishSetInput publishes on
\* an address of as many segments, the same as the destination's but for the
\* sixth, which is the set-input message type; splitting and joining changes
\* nothing else, and the message's Address is the address published on.
C15_OnlySixthSegmentReplaced ==
    (command.op = "PublishSetInput" /\ Len(Dest) >= 6) =>
        /\ handed # <<>>
        /\ LET a == Split(handed[1].address)
           IN  /\ Len(a) = Len(Dest)
               /\ \A i \in 1 .. Len(a) : i # 6 => a[i] = Dest[i]
               /\ a[6] = <<MessageTypeSetInput>>
               /\ Join(a) = handed[1].address
        /\ handed[1].message.Address = handed[1].address
C15_Witness ==
    /\ command.op = "PublishSetInput"
    /\ Len(Dest) = 6
    /\ Dest[6] # <<MessageTypeSetInput>>
    /\ Dest[4] # <<MessageTypeSetInput>>
    /\ handed # <<>>
    /\ Split(handed[1].address)[6] = <<MessageTypeSetInput>>

\* C16: the address of the publisher's identity is the identity address made
\* of the publisher's own domain and publisher ID.
C16_AddressIsOwn ==
    fullIdentity.address = MakePublisherIdentityAddress(LocalDomain, LocalPublisherID)

\* The stored identity as SetupPublisherIdentity found it, and the cases in
\* which it is not to be used: it does not load, or its domain, publisher ID
\* or address is not the one asked for, or it has no public key.
Stored == LoadIdentity(fileAtCall, LocalPublisherID)
StoredUnusable ==
    \/ Stored.err
    \/ Stored.fullIdentity.domain # setupDomain
    \/ Stored.fullIdentity.publisherID # LocalPublisherID
    \/ Stored.fullIdentity.address # MakePublisherIdentityAddress(setupDomain, LocalPublisherID)
    \/ Stored.fullIdentity.publicKey = EmptyString
\* SetupPublisherIdentity has returned a self signed identity it made in this
\* call, not what the file held.
ReturnedNew ==
    /\ setupResult.identity = created
    /\ setupResult.identity =
          [CreateIdentity(setupDomain, LocalPublisherID, setupResult.key)
              EXCEPT !.validUntil = created.validUntil]
    /\ fileAtCall.kind = "json" => setupResult.identity # fileAtCall.doc

SavedBySetup ==
    {[CreateIdentity(setupDomain, LocalPublisherID, key) EXCEPT !.validUntil = t] :
        key \in Keys, t \in {Format(k * Year, zone) : k \in 0 .. (MaxTime + 1)}}
C18_SetupIdempotent ==
    (spc = "returned" /\ fileAtCall.kind = "json" /\ fileAtCall.doc \in SavedBySetup) =>
        /\ setupResult = [identity |-> fileAtCall.doc, key |-> KeyOf(fileAtCall.doc)]
        /\ file = fileAtCall

\* C19: a stored identity that loads, is the one asked for and is expired is
\* returned as it is, with its key, and the file is left as it is.
C19_ExpiredKept ==
    (spc = "returned" /\ ~StoredUnusable /\ IsIdentityExpired(Stored.fullIdentity)) =>
        /\ setupResult = [identity |-> Stored.fullIdentity, key |-> Stored.privateKey]
        /\ file = fileAtCall
        /\ ~saveErr
C19_Witness ==
    /\ spc = "returned"
    /\ ~StoredUnusable
    /\ IsIdentityExpired(Stored.fullIdentity)
    /\ setupResult.identity = Stored.fullIdentity
    /\ setupResult.identity = created
    /\ file = Marshal(created)

\* C20 as stated: after a crash inside SaveIdentity, which overwrites an
\* identity file that was there, the file holds the whole of the old identity
\* or the whole of the new one.
C20_OldOrNew ==
    (spc = "crashedInSave" /\ fileAtCall.kind = "json")
        => file \in {fileAtCall, Marshal(created)}
\* C20 as amended: the file then holds the whole of the old identity, nothing,
\* a part of the new identity, or the whole of the new one; never old and new
\* mixed.
C20_OldNoneTruncatedOrNew ==
    (spc = "crashedInSave" /\ fileAtCall.kind = "json")
        => file \in {fileAtCall, NoFile, Truncated(created), Marshal(created)}
C20_Witness ==
    /\ spc = "crashedInSave"
    /\ fileAtCall.kind = "json"
    /\ file = Truncated(created)

\* C25: for a destination of 4 segments or more PublishNodeConfigure publishes
\* on an address of the node-level shape domain/publisherID/nodeID/$configure:
\* four segments, the last of them the configure message type.
C25_ConfigureAddressIsNodeLevel ==
    (command.op = "PublishNodeConfigure" /\ Len(Dest) >= 4) =>
        /\ handed # <<>>
        /\ Split(handed[1].address) = <<Dest[1], Dest[2], Dest[3], <<MessageTypeConfigure>>>>

\* The sender of the message verified is on record and the signature was made
\* with the key on record for it.
OnRecord == zonePublishers[verifying.sender].known
SignedWithKeyOnRecord ==
    /\ OnRecord
    /\ verifying.signedWith =
          DecodePublicKey(zonePublishers[verifying.sender].Identity.PublicKeySigning)

\* C21: VerifyMessageSignature returns true only if the sender is on record
\* and the signature was made with the key on record for it; for a sender not
\* on record, or a signature made with another key, it returns false; and no
\* step of it changes the publishers on record.
C21_VerifyOnlyWithKeyOnRecord ==
    /\ [](vpc = "returned" =>
            /\ valid => SignedWithKeyOnRecord
            /\ ~OnRecord => ~valid
            /\ ~SignedWithKeyOnRecord => ~valid)
    /\ [][vpc' # vpc => UNCHANGED zonePublishers]_vars
\* A message of a publisher on record, signed with the key of another one that
\* is on record too, was turned down.
C21_Witness ==
    /\ vpc = "returned"
    /\ verifying = [sender |-> "publisher2", signedWith |-> "key3"]
    /\ zonePublishers["publisher2"] = NodeOf("key2")
    /\ zonePublishers["publisher3"] = NodeOf("key3")
    /\ ~valid

\* C22: the mutex is held by a goroutine only between its Lock and the Unlock
\* that follows the read or write of the running flag or the lookup of the
\* sender: not while Start or Stop waits on exitChannel, not while Start
\* connects, subscribes and publishes, not while a signature is verified. A
\* heartbeat loop that wants the mutex for its check of the running flag is
\* never kept from it by a Start or Stop that waits.
C22_MutexScopedTightly ==
    /\ \A c \in Callers :
          /\ mutex = CallerThread(c) => pc[c] \in {"start_set", "stop_locked"}
          /\ pc[c] \in {"start_wait", "start_connect", "stop_wait", "stop_bye"}
                => mutex # CallerThread(c)
    /\ \A l \in Loops : mutex = LoopThread(l) => lpc[l] = "check"
    /\ mutex = VerifierThread => vpc = "lookup"
    /\ vpc = "verify" => mutex # VerifierThread
    /\ (\E l \in Loops : lpc[l] = "lock") =>
          \A c \in Callers : mutex = CallerThread(c) => pc[c] \notin {"start_wait", "stop_wait"}
\* Stop waits for the loop, the loop holds the mutex for its check, and a
\* signature is being verified.
C22_Witness ==
    /\ pc[1] = "stop_wait"
    /\ \E l \in Loops : lpc[l] = "check" /\ mutex = LoopThread(l)
    /\ vpc = "verify"

\* a is after b in the order of strings: at the first place where they
\* differ a has the greater character, or b is a = b cut short.
LexicallyGreater(a, b) ==
    \E i \in 1 .. Len(a) :
        /\ \A j \in 1 .. (i - 1) : j <= Len(b) /\ a[j] = b[j]
        /\ i > Len(b) \/ Ord(a[i]) > Ord(b[i])

\* C23: IsIdentityExpired returns true exactly when the timestamp of now is
\* lexically greater than validUntil; validUntil equal to the timestamp of
\* now is not expired, validUntil one second before now is expired, and
\* validUntil a year after now is not.
C23_ExpiredIffPast ==
    checked.done =>
        /\ checked.expired <=> LexicallyGreater(checked.timestamp, checked.validUntil)
        /\ checked.validUntil = checked.timestamp => ~checked.expired
        /\ checked.until = checked.at - 1 => checked.expired
        /\ checked.until = checked.at + Year => ~checked.expired

\* C24: a key pair that cannot be generated ends the call: SetupPublisherIdentity
\* (CreateIdentity) has then returned no identity and has left the file as it
\* was; NewPublisher has returned no publisher, so that every publisher there
\* is, and every publisher started, has its signing key.
C24_KeyFailureIsFatal ==
    /\ spc = "panicked" => (setupResult = NoResult /\ file = fileAtCall)
    /\ constructed = "returned" => signPrivateKey \in Keys
    /\ constructed = "panicked" => (NotStarted /\ ~isRunning /\ LiveLoops = {})
    /\ (isRunning \/ ~NotStarted \/ LiveLoops # {})
          => (constructed = "returned" /\ signPrivateKey # NoKey)
\* Neither the key of the identity nor the key of the publisher could be
\* generated, an identity of another domain being stored.
C24_Witness ==
    /\ spc = "panicked"
    /\ constructed = "panicked"
    /\ fileAtCall.kind = "json"
    /\ file = fileAtCall
    /\ signPrivateKey = NoKey

\* The heartbeat loops that were live when some Stop cleared the running flag.
StoppedLoops == UNION {stopTargets[c] : c \in Callers}

\* C26: a heartbeat loop that was live when a Stop cleared the running flag
\* ends with the tick it is in: at the check that ends that tick it never goes
\* on to another tick, whatever Start and Stop calls are made meanwhile.
C26_NoTickAfterStop ==
    [][\A l \in Loops :
         (l \in StoppedLoops /\ lpc[l] = "check") => lpc'[l] # "sleep"]_vars

InStart(c) == pc[c] \in {"start_lock", "start_set", "start_spawn", "start_wait", "start_connect"}

\* C27: every call of Start returns in the end, whatever calls of Start and
\* Stop other goroutines make: no Start waits for ever for a signal on
\* exitChannel.
C27_StartReturns == \A c \in Callers : InStart(c) ~> (pc[c] = "idle")

Polling == {l \in Loops : lpc[l] = "inPoll"}

\* C28: with Start and Stop called in sequence by one goroutine, the poll
\* handler never runs twice at a time, never runs while a heartbeat loop is in
\* its publication step, and does not run once Stop has returned.
C28_PollRunsAlone ==
    /\ Cardinality(Polling) <= 1
    /\ Polling # {} => \A l \in Loops : lpc[l] # "publish"
    /\ \A c \in SeqCallers :
          (pc[c] = "idle" /\ calls[c] # <<>> /\ Last(calls[c]) \in {"Stop", "StopNoop"})
              => Polling = {}
\* The poll handler runs in the loop of a second Start, the first loop having
\* polled and ended.
C28_Witness ==
    /\ calls[1] = <<"Start", "Stop", "Start">>
    /\ Polling # {}
    /\ \E l \in Loops : lpc[l] = "done" /\ ltick[l] \in pollTicks

\* C29: whenever SetupPublisherIdentity has returned, the identity file holds
\* exactly the identity that was returned, also when the save of a newly
\* created identity failed.
C29_FileHoldsReturned ==
    spc = "returned" => file = Marshal(setupResult.identity)

====
